---------------------------- MODULE Spec2Model ----------------------------
(***************************************************************************)
(* Capture-device frame streaming of chaiNNer:                             *)
(*   nodes/impl/video.py              VideoCapture (loader, stream_frames)  *)
(*   .../get_stream_from_capture_device.py                                  *)
(*                                    VideoCaptureState, VIDEO_LOADER_STATES*)
(*                                    get_stream_from_capture_device_node   *)
(*                                    and its iterator / cleanup_state      *)
(*                                                                         *)
(* One thread of control (the chain executor) calls the node function,     *)
(* pulls frames from the iterators it got and runs the cleanup hooks; the   *)
(* ffmpeg child processes, their pipes and the abort flag change           *)
(* concurrently with it.  A call of next() on an iterator is split where it *)
(* touches the child process (spawn, poll, read, terminate, wait, kill).    *)
(***************************************************************************)
EXTENDS Integers, Sequences, FiniteSets, TLC

(***************************************************************************)
(* Bounds of the model.                                                    *)
(***************************************************************************)
\* node invocations in one behaviour
MaxInv == 2
\* largest frame limit a node invocation is given
MaxLimit == 2
\* chunks one child process writes to its pipe before it can only exit
MaxWrites == 2
\* size in bytes of a chunk that matches no resolution
JunkBytes == 100
\* reads one stream makes before the model stops following it
MaxReads == 3
\* frames the child process of LimitSpec writes: one more than the largest
\* limit
MaxFrames == 3

None == 0

InvIds == 1 .. MaxInv

Min(a, b) == IF a <= b THEN a ELSE b

(***************************************************************************)
(* Inputs of the node: the device path, PixelFormat and Resolution.  A     *)
(* resolution "WxH" is kept as the pair <<W, H>> that VideoCapture.__init__*)
(* parses it to.                                                           *)
(***************************************************************************)
Paths == {"/dev/video0"}

PixelFormat == {"mjpeg", "bgr24", "yuyv422", "gray"}

Resolution == {<<160, 120>>, <<320, 240>>, <<640, 480>>, <<1280, 720>>}

\* the formats and resolutions the node invocations of Spec ask for
RequestFormats == {"bgr24", "gray"}

RequestResolutions == {<<160, 120>>, <<320, 240>>}

\* the resolutions the node invocation of StreamSpec asks for
StreamResolutions == {<<160, 120>>, <<320, 240>>}

\* the table of stream_frames' resolution auto-detection, in its order
common == << <<160, 120>>, <<320, 240>>, <<640, 480>>, <<1280, 720>>, <<1920, 1080>> >>

(***************************************************************************)
(* VideoCapture.__init__: the v4l2 input format and the pixel format asked *)
(* of ffmpeg's output, from the requested format.                          *)
(***************************************************************************)
input_format(requested_fmt) ==
    IF requested_fmt = "mjpeg" THEN "mjpeg"
    ELSE IF requested_fmt = "yuyv422" THEN "yuyv422"
    ELSE IF requested_fmt \in {"gray", "gray8"} THEN "gray"
    ELSE "bgr24"

output_pix_fmt(requested_fmt) ==
    IF requested_fmt = "mjpeg" THEN "bgr24"
    ELSE IF requested_fmt = "yuyv422" THEN "bgr24"
    ELSE IF requested_fmt \in {"gray", "gray8"} THEN "gray"
    ELSE "bgr24"

\* _bpp_map.get(fmt, 3)
bpp_map(fmt) ==
    IF fmt \in {"bgr24", "rgb24"} THEN 3
    ELSE IF fmt \in {"gray", "gray8"} THEN 1
    ELSE 3

\* stream_frames: the bytes per pixel its reads are sized with
bytes_per_pixel(requested_fmt) ==
    IF requested_fmt = "yuyv422" THEN 2 ELSE bpp_map(output_pix_fmt(requested_fmt))

\* the bytes of one frame as the child process writes it (rawvideo in the
\* output pixel format)
OutFrameBytes(requested_fmt, res) ==
    res[1] * res[2] * bpp_map(output_pix_fmt(requested_fmt))

(***************************************************************************)
(* stream_frames' auto-detection: the first entry of `common` whose pixel  *)
(* count is len(in_bytes) // bytes_per_pixel, or None.                     *)
(***************************************************************************)
RECURSIVE FirstMatch(_, _)
FirstMatch(pixels, k) ==
    IF k > Len(common) THEN None
    ELSE IF common[k][1] * common[k][2] = pixels THEN k
    ELSE FirstMatch(pixels, k + 1)

AutoDetect(n, bpp) == FirstMatch(n \div bpp, 1)

(***************************************************************************)
(* State.                                                                  *)
(***************************************************************************)
VARIABLES
    \* VIDEO_LOADER_STATES: path -> session (index into sessions) or None
    VIDEO_LOADER_STATES,
    \* the VideoCaptureState objects ever built:
    \*   [pix_fmt, resolution, loader (index into loaders or None), frame_index]
    sessions,
    \* the VideoCapture objects ever built: [requested_fmt, resolution]
    loaders,
    \* node invocations made so far
    nInv,
    \* per invocation: the closure of iterator() and cleanup_state()
    \*   [path, state, use_limit, limit, pixel_format, resolution, hook]
    inv,
    \* per invocation: the iterator  [pc, index, err]
    it,
    \* per invocation: the pairs' indices the consumer was handed, in order
    out,
    \* per invocation: the stream_frames generator
    \*   [pc, loader, width, height, frame_size, bytes_per_pixel, first_frame,
    \*    mode (how the finally block was entered), exc (the exception in
    \*    flight), teardowns (entries of the finally block with a process)]
    stream,
    \* per invocation: the reads of its stream, in order
    reads,
    \* per invocation: the child process of its stream
    \*   [status, avail, writes, frames, eof (it has closed its stdout), calls]
    process,
    \* node_context.aborted
    aborted,
    \* the invocation whose iterator is inside a next() call, or None
    active,
    \* the generator of VideoLoader.stream_frames, the file loader
    \*   [pc, probe, metadata, width, height, reads (its reads, in order),
    \*    frames (yielded), err]
    video_loader,
    \* the child process of the file loader  [status, avail, writes]
    ffmpeg_reader,
    \* a probe of a capture device: what ffmpeg.probe handed back and what
    \* the two device probes made of it  [pc, probe, capabilities, metadata]
    probing

device_vars == << VIDEO_LOADER_STATES, sessions, loaders, nInv, inv, it, out,
                  stream, reads, process, aborted, active >>

file_vars == << video_loader, ffmpeg_reader >>

vars == << device_vars, file_vars, probing >>

NoInv == [path |-> "", state |-> None, use_limit |-> FALSE, limit |-> 1,
          pixel_format |-> "", resolution |-> << >>, hook |-> "none"]

NoIt == [pc |-> "none", index |-> 0, err |-> "none"]

NoStream == [pc |-> "none", loader |-> None, width |-> 0, height |-> 0,
             frame_size |-> 0, bytes_per_pixel |-> 0, first_frame |-> TRUE,
             mode |-> "none", exc |-> "none", teardowns |-> 0]

NoProcess == [status |-> "none", avail |-> 0, writes |-> 0, frames |-> 0,
              eof |-> FALSE, calls |-> << >>]

NoReader == [status |-> "none", avail |-> 0, writes |-> 0]

(***************************************************************************)
(* ffmpeg.probe and the metadata probes of video.py.  A probe either       *)
(* raises or hands back a dictionary; the model keeps the entries the code *)
(* looks at.  A missing entry is None (no r_frame_rate: the empty tuple,   *)
(* no pix_fmt: the empty string); r_frame_rate "n/d" is the pair <<n, d>>, *)
(* durations are whole seconds.                                            *)
(***************************************************************************)
\* a width that int() rejects
Unparsable == -1

NoProbe == [raises |-> TRUE, format |-> FALSE, format_duration |-> None,
            video |-> FALSE, width |-> None, height |-> None,
            r_frame_rate |-> << >>, nb_frames |-> None, duration |-> None,
            pix_fmt |-> ""]

\* the format block: missing, without a duration, with one
ProbeFormats == {<<FALSE, None>>, <<TRUE, None>>, <<TRUE, 3>>}

ProbeWidths == {None, Unparsable, 160, 320}

ProbeHeights == {None, 120, 240}

ProbeFrameRates == {<< >>, <<30, 1>>, <<25, 2>>, <<30, 0>>}

ProbeFrameCounts == {None, 100}

ProbeDurations == {None, 2}

ProbePixFmts == {"", "mjpeg", "nv12"}

\* the outcomes of ffmpeg.probe: it raises, it finds no video stream, it
\* finds one
Probes ==
    {NoProbe}
      \cup {[NoProbe EXCEPT !.raises = FALSE, !.format = f[1],
                            !.format_duration = f[2]] : f \in ProbeFormats}
      \cup {[raises |-> FALSE, format |-> f[1], format_duration |-> f[2],
              video |-> TRUE, width |-> w, height |-> h, r_frame_rate |-> r,
              nb_frames |-> n, duration |-> d, pix_fmt |-> x] :
                f \in ProbeFormats, w \in ProbeWidths, h \in ProbeHeights,
                r \in ProbeFrameRates, n \in ProbeFrameCounts,
                d \in ProbeDurations, x \in ProbePixFmts}

\* the result of a probe function that raised e
Failed(e) == [err |-> e]

\* the fallback defaults of detect_device_capabilities
Fallback == [err |-> "none", pixel_format |-> "yuyv422", resolution |-> <<160, 120>>]

\* format_map.get(video_stream.get("pix_fmt", "yuyv422"), "yuyv422")
format_map(pix_fmt) ==
    IF pix_fmt \in {"yuyv422", "mjpeg", "gray", "bgr24"} THEN pix_fmt ELSE "yuyv422"

\* VideoCapture.detect_device_capabilities: every exception is caught
detect_device_capabilities(probe) ==
    IF probe.raises THEN Fallback
    ELSE IF ~probe.video THEN Fallback
    ELSE IF probe.width = Unparsable \/ probe.height = Unparsable THEN Fallback
    ELSE [err |-> "none",
          pixel_format |-> format_map(probe.pix_fmt),
          resolution |-> << IF probe.width = None THEN 160 ELSE probe.width,
                            IF probe.height = None THEN 120 ELSE probe.height >>]

\* the part VideoMetadata.from_file and from_device share: the error raised
\* up to the frame rate, or "none"
stream_error(probe) ==
    IF probe.raises THEN "ffmpeg.Error"
    ELSE IF ~probe.format THEN "Failed to get video format"
    ELSE IF ~probe.video THEN "No video stream found"
    ELSE IF probe.width = None THEN "No width found"
    ELSE IF probe.width = Unparsable THEN "ValueError"
    ELSE IF probe.height = None THEN "No height found"
    ELSE IF probe.height = Unparsable THEN "ValueError"
    ELSE IF probe.r_frame_rate = << >> THEN "No fps found"
    ELSE IF probe.r_frame_rate[2] = 0 THEN "ZeroDivisionError"
    ELSE "none"

\* VideoMetadata.from_device
from_device(probe) ==
    IF stream_error(probe) # "none" THEN Failed(stream_error(probe))
    ELSE [err |-> "none", width |-> probe.width, height |-> probe.height,
          fps |-> probe.r_frame_rate, frame_count |-> 10000]

\* the duration from_file falls back on: the stream's, else the format's
probe_duration(probe) ==
    IF probe.duration # None THEN probe.duration ELSE probe.format_duration

\* from_file with the duration taken before the explicit frame count
from_file_prefers_duration(probe) ==
    IF stream_error(probe) # "none" THEN Failed(stream_error(probe))
    ELSE IF probe.nb_frames = None /\ probe_duration(probe) = None
    THEN Failed("No frame count or duration found")
    ELSE [err |-> "none", width |-> probe.width, height |-> probe.height,
          fps |-> probe.r_frame_rate,
          frame_count |->
              IF probe_duration(probe) = None THEN probe.nb_frames
              ELSE (probe_duration(probe) * probe.r_frame_rate[1])
                       \div probe.r_frame_rate[2]]

\* VideoMetadata.from_file
from_file(probe) ==
    IF stream_error(probe) # "none" THEN Failed(stream_error(probe))
    ELSE IF probe.nb_frames = None /\ probe_duration(probe) = None
    THEN Failed("No frame count or duration found")
    ELSE [err |-> "none", width |-> probe.width, height |-> probe.height,
          fps |-> probe.r_frame_rate,
          frame_count |->
              IF probe.nb_frames # None THEN probe.nb_frames
              ELSE (probe_duration(probe) * probe.r_frame_rate[1])
                       \div probe.r_frame_rate[2]]

NoVideoLoader == [pc |-> "none", probe |-> NoProbe, metadata |-> Failed("unset"),
                  width |-> 0, height |-> 0, reads |-> << >>,
                  frames |-> 0, err |-> "none"]

NoProbing == [pc |-> "none", probe |-> NoProbe, capabilities |-> Failed("unset"),
              metadata |-> Failed("unset")]

Init ==
    /\ VIDEO_LOADER_STATES = [p \in Paths |-> None]
    /\ sessions = << >>
    /\ loaders = << >>
    /\ nInv = 0
    /\ inv = [i \in InvIds |-> NoInv]
    /\ it = [i \in InvIds |-> NoIt]
    /\ out = [i \in InvIds |-> << >>]
    /\ stream = [i \in InvIds |-> NoStream]
    /\ reads = [i \in InvIds |-> << >>]
    /\ process = [i \in InvIds |-> NoProcess]
    /\ aborted = FALSE
    /\ active = None
    /\ video_loader = NoVideoLoader
    /\ ffmpeg_reader = NoReader
    /\ probing = NoProbing


(***************************************************************************)
(* VideoCaptureState.  The heap is the pair of the sessions and the loaders *)
(* built so far; each method maps a heap to the heap after it.             *)
(***************************************************************************)
Heap == [sessions |-> sessions, loaders |-> loaders]

\* VideoCaptureState._create_loader
create_loader(h, sid) ==
    [sessions |-> [h.sessions EXCEPT ![sid].loader = Len(h.loaders) + 1,
                                     ![sid].frame_index = 0],
     loaders |-> Append(h.loaders, [requested_fmt |-> h.sessions[sid].pix_fmt,
                                    resolution |-> h.sessions[sid].resolution])]

\* VideoCaptureState.__init__
new_state(h, pix_fmt, resolution) ==
    create_loader(
        [sessions |-> Append(h.sessions, [pix_fmt |-> pix_fmt,
                                          resolution |-> resolution,
                                          loader |-> None,
                                          frame_index |-> 0]),
         loaders |-> h.loaders],
        Len(h.sessions) + 1)

\* (mutant) the settings are stored and the loader and frame_index stay
update_settings_keeps_loader(h, sid, pix_fmt, resolution) ==
    [sessions |-> [h.sessions EXCEPT ![sid].pix_fmt = pix_fmt,
                                     ![sid].resolution = resolution],
     loaders |-> h.loaders]

\* VideoCaptureState.update_settings
update_settings(h, sid, pix_fmt, resolution) ==
    IF h.sessions[sid].pix_fmt # pix_fmt \/ h.sessions[sid].resolution # resolution
    THEN create_loader(
             [sessions |-> [h.sessions EXCEPT ![sid].pix_fmt = pix_fmt,
                                              ![sid].resolution = resolution],
              loaders |-> h.loaders],
             sid)
    ELSE h

\* VideoCaptureState.cleanup
cleanup(h, sid) ==
    [sessions |-> [h.sessions EXCEPT ![sid].loader = None], loaders |-> h.loaders]

(***************************************************************************)
(* get_stream_from_capture_device_node: the node function, called by the   *)
(* executor.  It finds or builds the session of the path, updates its      *)
(* settings, registers cleanup_state and returns the iterator supplier.    *)
(***************************************************************************)
\* (mutant) every request for a stored session builds a new loader
node_heap_always_recreates(h, present, sid, pixel_format, resolution) ==
    IF present
    THEN create_loader(
             [sessions |-> [h.sessions EXCEPT ![sid].pix_fmt = pixel_format,
                                              ![sid].resolution = resolution],
              loaders |-> h.loaders],
             sid)
    ELSE new_state(h, pixel_format, resolution)

\* the heap after the node's "retrieve or create" and "update settings"
node_heap(h, present, sid, pixel_format, resolution) ==
    LET h1 == IF present THEN h ELSE new_state(h, pixel_format, resolution)
    IN  IF h1.sessions[sid].pix_fmt # pixel_format
           \/ h1.sessions[sid].resolution # resolution
        THEN update_settings(h1, sid, pixel_format, resolution)
        ELSE h1

get_stream_from_capture_device_node(path, use_limit, limit, pixel_format, resolution) ==
    /\ active = None
    /\ LET i == nInv + 1
           present == VIDEO_LOADER_STATES[path] # None
           sid == IF present THEN VIDEO_LOADER_STATES[path] ELSE Len(sessions) + 1
           h == node_heap(Heap, present, sid, pixel_format, resolution)
       IN  /\ sessions' = h.sessions
           /\ loaders' = h.loaders
           /\ VIDEO_LOADER_STATES' = [VIDEO_LOADER_STATES EXCEPT ![path] = sid]
           /\ nInv' = i
           /\ inv' = [inv EXCEPT ![i] = [path |-> path, state |-> sid,
                                         use_limit |-> use_limit, limit |-> limit,
                                         pixel_format |-> pixel_format,
                                         resolution |-> resolution,
                                         hook |-> "registered"]]
           /\ it' = [it EXCEPT ![i].pc = "ready"]
    /\ UNCHANGED << out, stream, reads, process, aborted, active >>
    /\ UNCHANGED << file_vars, probing >>

\* the (use_limit, limit) pairs the model's invocations are given
Limits == {<<TRUE, l>> : l \in 1 .. MaxLimit} \cup {<<FALSE, 1>>}

NodeCall(formats, resolutions) ==
    /\ nInv < MaxInv
    /\ \E path \in Paths, ul \in Limits, pixel_format \in formats,
          resolution \in resolutions :
           get_stream_from_capture_device_node(path, ul[1], ul[2], pixel_format,
                                               resolution)

(***************************************************************************)
(* cleanup_state: the hook the node registers, run by the executor.        *)
(***************************************************************************)
cleanup_state(i) ==
    /\ active = None
    /\ inv[i].hook = "registered"
    /\ it[i].pc \in {"ready", "done"}
    /\ LET path == inv[i].path
       IN  IF VIDEO_LOADER_STATES[path] # None
           THEN /\ sessions' = cleanup(Heap, VIDEO_LOADER_STATES[path]).sessions
                /\ VIDEO_LOADER_STATES' = [VIDEO_LOADER_STATES EXCEPT ![path] = None]
           ELSE UNCHANGED << sessions, VIDEO_LOADER_STATES >>
    /\ inv' = [inv EXCEPT ![i].hook = "done"]
    /\ UNCHANGED << loaders, nInv, it, out, stream, reads, process, aborted, active >>
    /\ UNCHANGED << file_vars, probing >>

(***************************************************************************)
(* How a next() call on the iterator of invocation i ends.                 *)
(***************************************************************************)
\* the for loop ended or was left by break: the iterator returns
iterator_return(i) ==
    /\ it' = [it EXCEPT ![i].pc = "done"]
    /\ active' = None
    /\ UNCHANGED << VIDEO_LOADER_STATES, sessions, loaders >>

\* (mutant) the error is passed on and the session stays where it is
iterator_except_keeps_session(i, e) ==
    /\ it' = [it EXCEPT ![i].pc = "done", ![i].err = e]
    /\ active' = None
    /\ UNCHANGED << VIDEO_LOADER_STATES, sessions, loaders >>

\* except Exception: state.cleanup(); VIDEO_LOADER_STATES.pop(path, None); raise
iterator_except(i, e) ==
    /\ sessions' = cleanup(Heap, inv[i].state).sessions
    /\ VIDEO_LOADER_STATES' = [VIDEO_LOADER_STATES EXCEPT ![inv[i].path] = None]
    /\ it' = [it EXCEPT ![i].pc = "done", ![i].err = e]
    /\ active' = None
    /\ UNCHANGED loaders

(***************************************************************************)
(* iterator(), first next(): make sure the session has a loader, create    *)
(* the stream_frames generator of that loader and enter it.                *)
(***************************************************************************)
iterator_start(i) ==
    /\ active = None
    /\ it[i].pc = "ready"
    /\ LET sid == inv[i].state
           h == IF sessions[sid].loader = None THEN create_loader(Heap, sid) ELSE Heap
       IN  /\ sessions' = h.sessions
           /\ loaders' = h.loaders
           /\ stream' = [stream EXCEPT ![i].pc = "spawn",
                                       ![i].loader = h.sessions[sid].loader]
    /\ it' = [it EXCEPT ![i].pc = "running"]
    /\ active' = i
    /\ UNCHANGED << VIDEO_LOADER_STATES, nInv, inv, out, reads, process, aborted >>
    /\ UNCHANGED << file_vars, probing >>

(***************************************************************************)
(* VideoCapture.stream_frames, up to run_async: the locals, then the spawn *)
(* of the ffmpeg child.  run_async may raise; with no process the finally  *)
(* block has nothing to tear down and the error reaches the iterator.      *)
(***************************************************************************)
stream_locals(l) ==
    [width |-> l.resolution[1], height |-> l.resolution[2],
     bytes_per_pixel |-> bytes_per_pixel(l.requested_fmt),
     frame_size |-> l.resolution[1] * l.resolution[2]
                        * bytes_per_pixel(l.requested_fmt)]

spawn(i) ==
    /\ active = i
    /\ stream[i].pc = "spawn"
    /\ LET loc == stream_locals(loaders[stream[i].loader])
       IN  stream' = [stream EXCEPT ![i].pc = "poll",
                                    ![i].width = loc.width,
                                    ![i].height = loc.height,
                                    ![i].bytes_per_pixel = loc.bytes_per_pixel,
                                    ![i].frame_size = loc.frame_size,
                                    ![i].first_frame = TRUE]
    /\ process' = [process EXCEPT ![i].status = "running"]
    /\ UNCHANGED << VIDEO_LOADER_STATES, sessions, loaders, nInv, inv, it, out,
                    reads, aborted, active >>
    /\ UNCHANGED << file_vars, probing >>

\* run_async raises: ffmpeg.Error becomes RuntimeError("FFmpeg startup
\* failed: ..."), any other exception passes as it is
SpawnErrors == {"startup", "oserror"}

spawn_fails(i) ==
    /\ active = i
    /\ stream[i].pc = "spawn"
    /\ \E e \in SpawnErrors :
          /\ iterator_except(i, e)
          /\ stream' = [stream EXCEPT ![i] = [NoStream EXCEPT !.pc = "done",
                                                              !.loader = stream[i].loader,
                                                              !.mode = "raise",
                                                              !.exc = e]]
    /\ UNCHANGED << nInv, inv, out, reads, process, aborted >>
    /\ UNCHANGED << file_vars, probing >>

(***************************************************************************)
(* The ffmpeg child and its stdout pipe.  While it runs it writes chunks   *)
(* to the pipe and may exit at any time; `avail` is the bytes written and  *)
(* not yet read, `frames` the complete output frames among the chunks.     *)
(***************************************************************************)
\* the table entries a misbehaving device delivers frames of
ShortResolutions == {<<160, 120>>}

WriteSizes(l) ==
    {OutFrameBytes(l.requested_fmt, l.resolution)}
        \cup {l.resolution[1] * l.resolution[2] * bytes_per_pixel(l.requested_fmt)}
        \cup {r[1] * r[2] * bytes_per_pixel(l.requested_fmt) : r \in ShortResolutions}
        \cup {r[1] * r[2] * bytes_per_pixel(l.requested_fmt) + 1 : r \in ShortResolutions}
        \cup {JunkBytes}

\* the child writes one chunk of n bytes, of at most max_writes; the pipe
\* takes a chunk once the reader has drained the one before
process_write(i, n, max_writes) ==
    /\ process[i].status = "running"
    /\ stream[i].pc # "done"
    /\ process[i].writes < max_writes
    /\ process[i].avail = 0
    /\ ~process[i].eof
    /\ process' = [process EXCEPT
           ![i].avail = @ + n,
           ![i].writes = @ + 1,
           ![i].frames = IF n = OutFrameBytes(loaders[stream[i].loader].requested_fmt,
                                              loaders[stream[i].loader].resolution)
                         THEN @ + 1 ELSE @]
    /\ UNCHANGED << VIDEO_LOADER_STATES, sessions, loaders, nInv, inv, it, out,
                    stream, reads, aborted, active >>
    /\ UNCHANGED << file_vars, probing >>

\* a well-behaved child writes complete frames only
write_frame(i) ==
    /\ stream[i].loader # None
    /\ process_write(i, OutFrameBytes(loaders[stream[i].loader].requested_fmt,
                                      loaders[stream[i].loader].resolution),
                     MaxWrites)

\* a well-behaved child that has more frames to give than any limit asks for
write_frames(i) ==
    /\ stream[i].loader # None
    /\ process_write(i, OutFrameBytes(loaders[stream[i].loader].requested_fmt,
                                      loaders[stream[i].loader].resolution),
                     MaxFrames)

\* a misbehaving child writes any of WriteSizes
write_chunk(i) ==
    /\ stream[i].loader # None
    /\ \E n \in WriteSizes(loaders[stream[i].loader]) :
          process_write(i, n, MaxWrites)

\* the child closes its stdout and goes on running (it flushes and closes
\* its output before it exits, or hangs after it).  As for a write, the
\* step is taken with the pipe drained: a close while bytes are buffered
\* shows in no read before they are consumed
process_close_stdout(i) ==
    /\ process[i].status = "running"
    /\ stream[i].pc \notin {"none", "done"}
    /\ ~process[i].eof
    /\ process[i].avail = 0
    /\ process' = [process EXCEPT ![i].eof = TRUE]
    /\ UNCHANGED << VIDEO_LOADER_STATES, sessions, loaders, nInv, inv, it, out,
                    stream, reads, aborted, active >>
    /\ UNCHANGED << file_vars, probing >>

process_exit(i) ==
    /\ process[i].status = "running"
    /\ process' = [process EXCEPT ![i].status = "exited"]
    /\ UNCHANGED << VIDEO_LOADER_STATES, sessions, loaders, nInv, inv, it, out,
                    stream, reads, aborted, active >>
    /\ UNCHANGED << file_vars, probing >>

\* the user aborts the chain: node_context.aborted becomes true
abort ==
    /\ ~aborted
    /\ aborted' = TRUE
    /\ UNCHANGED << VIDEO_LOADER_STATES, sessions, loaders, nInv, inv, it, out,
                    stream, reads, process, active >>
    /\ UNCHANGED << file_vars, probing >>

(***************************************************************************)
(* stream_frames, the capture loop.                                        *)
(***************************************************************************)
\* the generator enters its finally block holding a process
enter_finally(s, mode, exc) ==
    [s EXCEPT !.pc = "fin_poll", !.mode = mode, !.exc = exc, !.teardowns = @ + 1]

\* (mutant) the loop is left by a return that bypasses the finally block
poll_skips_finally(i) ==
    /\ active = i
    /\ stream[i].pc = "poll"
    /\ IF process[i].status # "running"
       THEN /\ stream' = [stream EXCEPT ![i].pc = "done", ![i].mode = "break"]
            /\ iterator_return(i)
       ELSE /\ stream' = [stream EXCEPT ![i].pc = "read"]
            /\ UNCHANGED << VIDEO_LOADER_STATES, sessions, loaders, it, active >>
    /\ UNCHANGED << nInv, inv, out, reads, process, aborted >>
    /\ UNCHANGED << file_vars, probing >>

\* while True: if process.poll() is not None: break
poll(i) ==
    /\ active = i
    /\ stream[i].pc = "poll"
    /\ stream' = [stream EXCEPT ![i] =
            IF process[i].status # "running"
            THEN enter_finally(@, "break", "none")
            ELSE [@ EXCEPT !.pc = "read"]]
    /\ UNCHANGED << VIDEO_LOADER_STATES, sessions, loaders, nInv, inv, it, out,
                    reads, process, aborted, active >>
    /\ UNCHANGED << file_vars, probing >>

\* stdout.read(frame_size): up to frame_size bytes of what the pipe holds;
\* it blocks while the pipe is empty and the child holds its end open, and
\* returns b"" once the child has closed its end (at the latest by exiting)
\* and the pipe is drained
read_ready(i) ==
    process[i].avail > 0 \/ process[i].eof \/ process[i].status = "exited"

\* (mutant) a match changes width and height and leaves frame_size as it was
auto_detect_keeps_frame_size(s, n) ==
    IF s.first_frame /\ n > 0 /\ n # s.frame_size
    THEN LET k == AutoDetect(n, s.bytes_per_pixel)
         IN  IF k # None
             THEN [s EXCEPT !.width = common[k][1], !.height = common[k][2],
                            !.first_frame = FALSE]
             ELSE [s EXCEPT !.first_frame = FALSE]
    ELSE s

\* the locals after the auto-detection block, for a read of n bytes
auto_detect(s, n) ==
    IF s.first_frame /\ n > 0 /\ n # s.frame_size
    THEN LET k == AutoDetect(n, s.bytes_per_pixel)
         IN  IF k # None
             THEN [s EXCEPT !.width = common[k][1], !.height = common[k][2],
                            !.frame_size = n, !.first_frame = FALSE]
             ELSE [s EXCEPT !.first_frame = FALSE]
    ELSE s

\* what becomes of a buffer of n = frame_size bytes: "yield", "convfail"
\* (the YUYV422 conversion raised and the frame is skipped) or "reshape"
\* (reshape raised ValueError out of the loop)
convert(s, requested_fmt, n, cv2_ok) ==
    IF output_pix_fmt(requested_fmt) \in {"gray", "gray8"}
    THEN IF n = s.height * s.width THEN "yield" ELSE "reshape"
    ELSE IF requested_fmt = "yuyv422"
    THEN IF n = s.height * s.width * 2 /\ cv2_ok THEN "yield" ELSE "convfail"
    ELSE IF n = s.height * s.width * 3 THEN "yield" ELSE "reshape"

\* what the loop body does with a read of n bytes
read_result(s, requested_fmt, n, cv2_ok) ==
    IF n = auto_detect(s, n).frame_size
    THEN convert(auto_detect(s, n), requested_fmt, n, cv2_ok)
    ELSE "drop"

\* (mutant) the frame is handed on before the abort flag is looked at
iterator_body_yields_first(i, s) ==
    /\ stream' = [stream EXCEPT ![i] = [s EXCEPT !.pc = "yield"]]
    /\ out' = [out EXCEPT ![i] = Append(@, it[i].index)]
    /\ it' = [it EXCEPT ![i].pc = "yielded", ![i].index = @ + 1]
    /\ active' = None

\* iterator(), the body of its for loop up to the yield: the frame the
\* stream yielded is dropped and the loop left if the chain was aborted,
\* and handed to the consumer with its index otherwise
iterator_body(i, s) ==
    IF aborted
    THEN /\ stream' = [stream EXCEPT ![i] = enter_finally(s, "close", "none")]
         /\ UNCHANGED << it, out, active >>
    ELSE /\ stream' = [stream EXCEPT ![i] = [s EXCEPT !.pc = "yield"]]
         /\ out' = [out EXCEPT ![i] = Append(@, it[i].index)]
         /\ it' = [it EXCEPT ![i].pc = "yielded", ![i].index = @ + 1]
         /\ active' = None

read(i) ==
    /\ active = i
    /\ stream[i].pc = "read"
    /\ read_ready(i)
    /\ Len(reads[i]) < MaxReads
    /\ \E cv2_ok \in BOOLEAN :
        LET s == stream[i]
            n == Min(process[i].avail, s.frame_size)
            s1 == auto_detect(s, n)
            res == read_result(s, loaders[s.loader].requested_fmt, n, cv2_ok)
        IN  /\ process' = [process EXCEPT ![i].avail = @ - n]
            /\ reads' = [reads EXCEPT ![i] = Append(@,
                            [req |-> s.frame_size, got |-> n, first |-> s.first_frame,
                             result |-> res, width |-> s1.width, height |-> s1.height,
                             frame_size |-> s1.frame_size, aborted |-> aborted])]
            /\ CASE res = "yield" -> iterator_body(i, s1)
                  [] res = "convfail" ->
                        \* continue: the trailing first_frame = False is skipped
                        /\ stream' = [stream EXCEPT ![i] = [s1 EXCEPT !.pc = "poll"]]
                        /\ UNCHANGED << it, out, active >>
                  [] res = "drop" ->
                        /\ stream' = [stream EXCEPT ![i] =
                                [s1 EXCEPT !.pc = "poll", !.first_frame = FALSE]]
                        /\ UNCHANGED << it, out, active >>
                  [] res = "reshape" ->
                        /\ stream' = [stream EXCEPT ![i] = enter_finally(s1, "raise", "reshape")]
                        /\ UNCHANGED << it, out, active >>
    /\ UNCHANGED << VIDEO_LOADER_STATES, sessions, loaders, nInv, inv, aborted >>
    /\ UNCHANGED << file_vars, probing >>

\* stdout.read raises (an I/O error on the pipe)
read_fails(i) ==
    /\ active = i
    /\ stream[i].pc = "read"
    /\ stream' = [stream EXCEPT ![i] = enter_finally(@, "raise", "read")]
    /\ UNCHANGED << VIDEO_LOADER_STATES, sessions, loaders, nInv, inv, it, out,
                    reads, process, aborted, active >>
    /\ UNCHANGED << file_vars, probing >>

(***************************************************************************)
(* iterator(), a later next(): the code after its yield.  The session's    *)
(* frame_index is counted up and compared with the limit; either the loop  *)
(* is left, which closes the stream_frames generator, or the generator is  *)
(* resumed after its own yield.                                            *)
(***************************************************************************)
limit_reached(use_limit, limit, frame_index) == use_limit /\ frame_index >= limit

iterator_resume(i) ==
    /\ active = None
    /\ it[i].pc = "yielded"
    /\ LET sid == inv[i].state
           frame_index == sessions[sid].frame_index + 1
       IN  /\ sessions' = [sessions EXCEPT ![sid].frame_index = frame_index]
           /\ stream' = [stream EXCEPT ![i] =
                   IF limit_reached(inv[i].use_limit, inv[i].limit, frame_index)
                   THEN enter_finally(@, "close", "none")
                   ELSE [@ EXCEPT !.pc = "poll", !.first_frame = FALSE]]
    /\ it' = [it EXCEPT ![i].pc = "running"]
    /\ active' = i
    /\ UNCHANGED << VIDEO_LOADER_STATES, loaders, nInv, inv, out, reads, process,
                    aborted >>
    /\ UNCHANGED << file_vars, probing >>

\* the consumer throws Aborted into the iterator at its yield: the for loop
\* is unwound, which drops and so closes the stream_frames generator, and
\* `except Aborted: raise` passes the exception on once that is done
iterator_throw(i) ==
    /\ active = None
    /\ it[i].pc = "yielded"
    /\ stream' = [stream EXCEPT ![i] = enter_finally(@, "close", "none")]
    /\ it' = [it EXCEPT ![i].pc = "running", ![i].err = "Aborted"]
    /\ active' = i
    /\ UNCHANGED << VIDEO_LOADER_STATES, sessions, loaders, nInv, inv, out, reads,
                    process, aborted >>
    /\ UNCHANGED << file_vars, probing >>

(***************************************************************************)
(* stream_frames, the finally block with a process: poll, terminate, wait  *)
(* up to a second, kill on TimeoutExpired; any other exception is logged.  *)
(***************************************************************************)
\* the generator is finished: its locals and its end of the pipe are gone
stream_done(i, mode, exc, p) ==
    /\ stream' = [stream EXCEPT ![i] = [NoStream EXCEPT !.pc = "done",
                                                       !.loader = stream[i].loader,
                                                       !.mode = mode,
                                                       !.exc = exc,
                                                       !.teardowns = stream[i].teardowns]]
    /\ reads' = [reads EXCEPT ![i] = << >>]
    /\ process' = [process EXCEPT ![i] = [p EXCEPT !.avail = 0, !.eof = FALSE]]

\* the finally block ended without raising, the child left as p
finish_stream(i, p) ==
    /\ stream_done(i, stream[i].mode, stream[i].exc, p)
    /\ IF stream[i].mode = "raise"
       THEN iterator_except(i, stream[i].exc)
       ELSE iterator_return(i)

\* an exception leaves the finally block.  When the generator is being
\* closed because the iterator left its loop, the interpreter reports the
\* exception and drops it; otherwise it reaches the iterator
escape_finally(i, e, p) ==
    /\ stream_done(i, stream[i].mode, e, p)
    /\ IF stream[i].mode = "close"
       THEN iterator_return(i)
       ELSE iterator_except(i, e)

FinallyFrame == << nInv, inv, out, aborted, video_loader, ffmpeg_reader, probing >>

FinallyGoto(i, pc) ==
    /\ stream' = [stream EXCEPT ![i].pc = pc]
    /\ UNCHANGED << VIDEO_LOADER_STATES, sessions, loaders, it, active, reads >>

called(p, c) == [p EXCEPT !.calls = Append(@, c)]

exited(p) == [p EXCEPT !.status = "exited"]

\* if process.poll() is None:
finally_poll(i) ==
    /\ active = i
    /\ stream[i].pc = "fin_poll"
    /\ IF process[i].status = "running"
       THEN FinallyGoto(i, "fin_terminate") /\ UNCHANGED process
       ELSE finish_stream(i, process[i])
    /\ UNCHANGED FinallyFrame

\* process.terminate()
finally_terminate(i) ==
    /\ active = i
    /\ stream[i].pc = "fin_terminate"
    /\ process' = [process EXCEPT ![i] = called(@, "terminate")]
    /\ FinallyGoto(i, "fin_wait")
    /\ UNCHANGED FinallyFrame

\* process.wait(timeout=1.0) returns: the child has exited within the second
finally_wait(i) ==
    /\ active = i
    /\ stream[i].pc = "fin_wait"
    /\ finish_stream(i, exited(called(process[i], "wait")))
    /\ UNCHANGED FinallyFrame

\* process.wait(timeout=1.0) raises TimeoutExpired: the child still runs
finally_wait_timeout(i) ==
    /\ active = i
    /\ stream[i].pc = "fin_wait"
    /\ process[i].status = "running"
    /\ process' = [process EXCEPT ![i] = called(@, "wait")]
    /\ FinallyGoto(i, "fin_kill")
    /\ UNCHANGED FinallyFrame

\* except subprocess.TimeoutExpired: process.kill()
finally_kill(i) ==
    /\ active = i
    /\ stream[i].pc = "fin_kill"
    /\ finish_stream(i, exited(called(process[i], "kill")))
    /\ UNCHANGED FinallyFrame

\* poll, terminate or wait raises something else: except Exception logs it
finally_logged(i) ==
    /\ active = i
    /\ stream[i].pc \in {"fin_poll", "fin_terminate", "fin_wait"}
    /\ finish_stream(i, process[i])
    /\ UNCHANGED FinallyFrame

\* process.kill() raises inside the TimeoutExpired handler: no handler of
\* the try statement covers it
finally_kill_fails(i) ==
    /\ active = i
    /\ stream[i].pc = "fin_kill"
    /\ escape_finally(i, "teardown", called(process[i], "kill"))
    /\ UNCHANGED FinallyFrame

(***************************************************************************)
(* VideoLoader, the file loader.  The constructor probes the file with     *)
(* VideoMetadata.from_file and lets its errors through, so that no loader  *)
(* exists for a file whose probe failed.  stream_frames: one ffmpeg child  *)
(* per call,                                                               *)
(* read in frames of width * height * 3 bytes until a read returns nothing. *)
(* Every nonempty buffer is reshaped to (height, width, 3) and yielded;    *)
(* reshape raises ValueError on a buffer of any other size.  The with      *)
(* statement closes the pipe and waits for the child however the loop ends. *)
(***************************************************************************)
\* VideoLoader.__init__: self.metadata = VideoMetadata.from_file(path, ...)
VideoLoader_init ==
    /\ video_loader.pc = "none"
    /\ \E probe \in Probes :
          LET metadata == from_file(probe)
          IN  video_loader' =
                  IF metadata.err # "none"
                  THEN [video_loader EXCEPT !.pc = "failed", !.probe = probe,
                                            !.metadata = metadata,
                                            !.err = metadata.err]
                  ELSE [video_loader EXCEPT !.pc = "loaded", !.probe = probe,
                                            !.metadata = metadata,
                                            !.width = metadata.width,
                                            !.height = metadata.height]
    /\ UNCHANGED << device_vars, probing, ffmpeg_reader >>

VideoLoader_stream_frames ==
    /\ video_loader.pc = "loaded"
    /\ video_loader' = [video_loader EXCEPT !.pc = "read"]
    /\ ffmpeg_reader' = [ffmpeg_reader EXCEPT !.status = "running"]
    /\ UNCHANGED << device_vars, probing >>

\* the chunks the child of a file of the given size writes: whole frames,
\* a frame cut short and a few stray bytes
FileWriteSizes(width, height) ==
    {width * height * 3, width * height, JunkBytes}

ffmpeg_reader_write ==
    /\ ffmpeg_reader.status = "running"
    /\ video_loader.pc # "done"
    /\ ffmpeg_reader.writes < MaxWrites
    /\ ffmpeg_reader.avail = 0
    /\ \E n \in FileWriteSizes(video_loader.width, video_loader.height) :
          ffmpeg_reader' = [ffmpeg_reader EXCEPT !.avail = n, !.writes = @ + 1]
    /\ UNCHANGED << device_vars, probing, video_loader >>

ffmpeg_reader_exit ==
    /\ ffmpeg_reader.status = "running"
    /\ ffmpeg_reader' = [ffmpeg_reader EXCEPT !.status = "exited"]
    /\ UNCHANGED << device_vars, probing, video_loader >>

\* what the loop body does with a read of n bytes
file_read_result(width, height, n) ==
    IF n = 0 THEN "end"
    ELSE IF n = height * width * 3 THEN "yield"
    ELSE "reshape"

\* in_bytes = ffmpeg_reader.stdout.read(width * height * 3) and the rest of
\* the loop body
VideoLoader_read ==
    /\ video_loader.pc = "read"
    /\ ffmpeg_reader.avail > 0 \/ ffmpeg_reader.status = "exited"
    /\ LET req == video_loader.width * video_loader.height * 3
           n == Min(ffmpeg_reader.avail, req)
           res == file_read_result(video_loader.width, video_loader.height, n)
           log == Append(video_loader.reads, [req |-> req, got |-> n, result |-> res])
       IN  CASE res = "yield" ->
                  /\ video_loader' = [video_loader EXCEPT !.pc = "yield",
                                                          !.reads = log,
                                                          !.frames = @ + 1]
                  /\ ffmpeg_reader' = [ffmpeg_reader EXCEPT !.avail = @ - n]
             [] res = "end" ->
                  /\ video_loader' = [video_loader EXCEPT !.pc = "done", !.reads = log]
                  /\ ffmpeg_reader' = [ffmpeg_reader EXCEPT !.avail = 0,
                                                            !.status = "exited"]
             [] res = "reshape" ->
                  /\ video_loader' = [video_loader EXCEPT !.pc = "done", !.reads = log,
                                                          !.err = "reshape"]
                  /\ ffmpeg_reader' = [ffmpeg_reader EXCEPT !.avail = 0,
                                                            !.status = "exited"]
    /\ UNCHANGED << device_vars, probing >>

\* the consumer asks for the next frame
VideoLoader_next ==
    /\ video_loader.pc = "yield"
    /\ video_loader' = [video_loader EXCEPT !.pc = "read"]
    /\ UNCHANGED << device_vars, probing, ffmpeg_reader >>

\* the consumer drops the generator at a yield: GeneratorExit leaves the
\* with statement, which closes the pipe and waits for the child
VideoLoader_close ==
    /\ video_loader.pc = "yield"
    /\ video_loader' = [video_loader EXCEPT !.pc = "done"]
    /\ ffmpeg_reader' = [ffmpeg_reader EXCEPT !.avail = 0, !.status = "exited"]
    /\ UNCHANGED << device_vars, probing >>

(***************************************************************************)
(* The probes of a capture device: ffmpeg.probe answers, and               *)
(* VideoCapture.detect_device_capabilities and VideoMetadata.from_device   *)
(* are applied to the answer.                                              *)
(***************************************************************************)
ffmpeg_probe ==
    /\ probing.pc = "none"
    /\ \E probe \in Probes :
          probing' = [probing EXCEPT !.pc = "probed", !.probe = probe]
    /\ UNCHANGED << device_vars, file_vars >>

VideoCapture_detect_device_capabilities ==
    /\ probing.pc = "probed"
    /\ probing.capabilities = Failed("unset")
    /\ probing' = [probing EXCEPT
           !.capabilities = detect_device_capabilities(probing.probe)]
    /\ UNCHANGED << device_vars, file_vars >>

VideoMetadata_from_device ==
    /\ probing.pc = "probed"
    /\ probing.metadata = Failed("unset")
    /\ probing' = [probing EXCEPT !.metadata = from_device(probing.probe)]
    /\ UNCHANGED << device_vars, file_vars >>

(***************************************************************************)
(* The system.                                                             *)
(***************************************************************************)
\* the executor, the iterators and the streams
Program(i) ==
    \/ cleanup_state(i)
    \/ iterator_start(i)
    \/ iterator_resume(i)
    \/ spawn(i)
    \/ poll(i)
    \/ read(i)
    \/ finally_poll(i)
    \/ finally_terminate(i)
    \/ finally_wait(i)
    \/ finally_wait_timeout(i)
    \/ finally_kill(i)

\* calls of the child's API that raise
Faults(i) ==
    \/ spawn_fails(i)
    \/ read_fails(i)
    \/ finally_logged(i)
    \/ finally_kill_fails(i)

\* several node invocations for the device, each with a well-behaved child,
\* in a chain that is not aborted
Next ==
    \/ NodeCall(RequestFormats, RequestResolutions)
    \/ \E i \in InvIds :
          \/ Program(i)
          \/ write_frame(i)
          \/ process_exit(i)

Spec == Init /\ [][Next]_vars

\* several node invocations that differ in the resolution at most, each
\* with a well-behaved child that writes up to MaxFrames frames
LimitCall == NodeCall({"bgr24"}, RequestResolutions)

LimitNext ==
    \/ LimitCall
    \/ \E i \in InvIds :
          \/ Program(i)
          \/ write_frames(i)
          \/ process_exit(i)

LimitSpec == Init /\ [][LimitNext]_vars

\* several node invocations with the same settings, each with a
\* well-behaved child, where starting the child may fail
RetireCall == NodeCall({"bgr24"}, {<<160, 120>>})

RetireNext ==
    \/ RetireCall
    \/ \E i \in InvIds :
          \/ Program(i)
          \/ spawn_fails(i)
          \/ write_frame(i)
          \/ process_exit(i)

RetireSpec == Init /\ [][RetireNext]_vars

\* one node invocation, its child misbehaving and its API calls failing
FirstCall == nInv < 1 /\ NodeCall(PixelFormat, StreamResolutions)

StreamNext ==
    \/ FirstCall
    \/ abort
    \/ \E i \in InvIds :
          \/ Program(i)
          \/ Faults(i)
          \/ iterator_throw(i)
          \/ write_chunk(i)
          \/ process_close_stdout(i)
          \/ process_exit(i)

StreamSpec == Init /\ [][StreamNext]_vars

\* one stream of a video file
FileNext ==
    \/ VideoLoader_init
    \/ VideoLoader_stream_frames
    \/ ffmpeg_reader_write
    \/ ffmpeg_reader_exit
    \/ VideoLoader_read
    \/ VideoLoader_next
    \/ VideoLoader_close

FileSpec == Init /\ [][FileNext]_vars

\* one probe of a capture device
ProbeNext ==
    \/ ffmpeg_probe
    \/ VideoCapture_detect_device_capabilities
    \/ VideoMetadata_from_device

ProbeSpec == Init /\ [][ProbeNext]_vars


(***************************************************************************)
(* Notions the properties below are stated with.                           *)
(***************************************************************************)
\* a child process was spawned for the stream of invocation i
Spawned(i) == process[i].status # "none"

Spawns(i) == IF Spawned(i) THEN 1 ELSE 0

\* the stream of invocation i is over: its generator has finished
StreamOver(i) == stream[i].pc = "done"

IsPrefix(s, t) == Len(s) <= Len(t) /\ \A k \in 1 .. Len(s) : s[k] = t[k]

\* the sequence 0, 1, ..., n - 1
Indices(n) == [k \in 1 .. n |-> k - 1]

(***************************************************************************)
(* C1.  For every decode process stream_frames spawns, the finally block   *)
(* with that process runs exactly once, however the stream ends: there are *)
(* never more teardowns than spawns, a stream without a process has none,  *)
(* and once the stream is over (the child exited, the limit was reached,   *)
(* the abort was seen, an error was raised, the child exited right after   *)
(* its start or outlived the terminate timeout) there are exactly as many. *)
(***************************************************************************)
C1_TeardownOncePerSpawn ==
    \A i \in InvIds :
        /\ stream[i].teardowns <= Spawns(i)
        /\ (StreamOver(i) \/ it[i].pc = "done") => stream[i].teardowns = Spawns(i)

\* a stream that the abort ended, whose child outlived the terminate timeout
\* and was killed, torn down once
C1_Witness ==
    \E i \in InvIds :
        /\ StreamOver(i)
        /\ Spawned(i)
        /\ stream[i].teardowns = 1
        /\ stream[i].mode = "close"
        /\ aborted
        /\ process[i].calls = << "terminate", "wait", "kill" >>

(***************************************************************************)
(* C2.  The teardown of a decode process keeps the order: nothing is sent  *)
(* to a process that has exited; otherwise terminate comes first, then the *)
(* wait of one second, and kill only after that wait has timed out.  When  *)
(* the teardown is over the process is no longer running.                  *)
(***************************************************************************)
C2_TeardownOrder ==
    \A i \in InvIds :
        /\ IsPrefix(process[i].calls, << "terminate", "wait", "kill" >>)
        /\ stream[i].pc = "fin_kill" => process[i].calls = << "terminate", "wait" >>
        /\ (StreamOver(i) /\ Spawned(i)) => process[i].status # "running"

(***************************************************************************)
(* C3.  No error raised while the decode process is torn down (by the      *)
(* poll, the terminate, the wait or the kill) reaches the consumer of the  *)
(* frame sequence.                                                         *)
(***************************************************************************)
C3_TeardownErrorsLogged ==
    \A i \in InvIds : it[i].err # "teardown"

(***************************************************************************)
(* C4.  With a limit L, an iteration of the node's frame sequence that     *)
(* ends without error has yielded exactly min(L, available_frames) pairs   *)
(* with the indices 0 .. min(L, available_frames) - 1 in order, where      *)
(* available_frames is the number of complete frames its decode process    *)
(* delivered; and once the chain's cleanup has run the session is no       *)
(* longer in VIDEO_LOADER_STATES.                                          *)
(***************************************************************************)
C4_LimitYields ==
    \A i \in InvIds :
        (it[i].pc = "done" /\ inv[i].use_limit /\ it[i].err = "none" /\ ~aborted)
            => /\ out[i] = Indices(Min(inv[i].limit, process[i].frames))
               /\ inv[i].hook = "done"
                      => VIDEO_LOADER_STATES[inv[i].path] # inv[i].state

C6_OneLiveProcess ==
    \A s \in 1 .. Len(sessions) :
        Cardinality({i \in InvIds : inv[i].state = s /\ process[i].status = "running"})
            <= 1

(***************************************************************************)
(* C7.  A session's frame_index never decreases except by a reset to zero; *)
(* every spawn of a process for the session finds frame_index = 0; and     *)
(* frame_index is set back to zero only where the session is given a new   *)
(* loader, whose process the next iteration spawns.                        *)
(***************************************************************************)
C7_FrameIndexReset ==
    [][ /\ \A s \in 1 .. Len(sessions) :
              /\ sessions'[s].frame_index >= sessions[s].frame_index
                     \/ sessions'[s].frame_index = 0
              /\ (sessions[s].frame_index > 0 /\ sessions'[s].frame_index = 0)
                     => Len(loaders') > Len(loaders)
        /\ \A i \in InvIds :
              (~Spawned(i) /\ process'[i].status # "none")
                  => sessions[inv[i].state].frame_index = 0
      ]_vars

FirstReadMatches(i, k) ==
    /\ reads[i] # << >>
    /\ reads[i][1].first
    /\ 0 < reads[i][1].got
    /\ reads[i][1].got < reads[i][1].req
    /\ reads[i][1].got = common[k][1] * common[k][2] * stream[i].bytes_per_pixel

\* the entry is adopted and every later read asks for the new frame size
Adopted(i, k) ==
    /\ reads[i][1].width = common[k][1]
    /\ reads[i][1].height = common[k][2]
    /\ \A j \in 2 .. Len(reads[i]) : reads[i][j].req = reads[i][1].got

(***************************************************************************)
(* C9 as stated.  After such a first read the entry's width and height are *)
(* adopted, the short buffer is emitted as a frame, and every later read   *)
(* requests the new frame size.                                            *)
(***************************************************************************)
C9_FirstShortReadEmitted ==
    \A i \in InvIds : \A k \in 1 .. Len(common) :
        FirstReadMatches(i, k)
            => Adopted(i, k) /\ reads[i][1].result = "yield"

(***************************************************************************)
(* C9, amended.  After such a first read the entry's width and height are  *)
(* adopted and every later read requests the new frame size; the short     *)
(* buffer is emitted as a frame, except that for the yuyv422 format it is  *)
(* skipped when its conversion to BGR fails.                               *)
(***************************************************************************)
C9_FirstShortReadAdopted ==
    \A i \in InvIds : \A k \in 1 .. Len(common) :
        FirstReadMatches(i, k)
            => /\ Adopted(i, k)
               /\ \/ reads[i][1].result = "yield"
                  \/ /\ loaders[stream[i].loader].requested_fmt = "yuyv422"
                     /\ reads[i][1].result = "convfail"

\* a first read of a quarter-size frame was emitted and the read after it
\* asked for the adopted size
C9_Witness ==
    \E i \in InvIds : \E k \in 1 .. Len(common) :
        /\ FirstReadMatches(i, k)
        /\ reads[i][1].result = "yield"
        /\ Len(reads[i]) >= 2
        /\ reads[i][2].req = reads[i][1].got
        /\ reads[i][2].got = reads[i][2].req

(***************************************************************************)
(* C10.  A read after the first one that returns n bytes with 0 < n < F    *)
(* neither ends the frame sequence nor raises: its buffer is dropped and   *)
(* the stream goes on with the width, height and frame size it had.  This  *)
(* is said of the file loader's stream and of the device stream.           *)
(***************************************************************************)
C10_MidStreamShortRead ==
    /\ \A j \in 2 .. Len(video_loader.reads) :
          LET r == video_loader.reads[j]
          IN  (0 < r.got /\ r.got < r.req) => r.result = "drop"
    /\ \A i \in InvIds : \A j \in 2 .. Len(reads[i]) :
          LET r == reads[i][j]
          IN  (0 < r.got /\ r.got < r.req)
                 => /\ r.result = "drop"
                    /\ r.width = reads[i][j - 1].width
                    /\ r.height = reads[i][j - 1].height

(***************************************************************************)
(* C11.  A read of the decode process's output that returns zero bytes     *)
(* ends the frame sequence, without an error: no read follows it.  This is *)
(* said of the device stream and of the file loader's stream.              *)
(***************************************************************************)
C11_EndOfStream ==
    /\ \A i \in InvIds : \A j \in 1 .. Len(reads[i]) :
          reads[i][j].got = 0 => j = Len(reads[i]) /\ stream[i].exc = "none"
    /\ \A j \in 1 .. Len(video_loader.reads) :
          video_loader.reads[j].got = 0
              => /\ j = Len(video_loader.reads)
                 /\ video_loader.pc = "done"
                 /\ video_loader.err = "none"

(***************************************************************************)
(* C12.  Retiring a session (cleanup_state or the iterator's error path    *)
(* takes it out of VIDEO_LOADER_STATES) leaves no decode process of that   *)
(* session running; and the next request for the path builds a new session *)
(* with frame_index = 0.                                                   *)
(***************************************************************************)
C12_RetireTearsDown ==
    [][ \A p \in Paths :
          /\ (VIDEO_LOADER_STATES[p] # None /\ VIDEO_LOADER_STATES'[p] = None)
                => \A i \in InvIds :
                      inv[i].state = VIDEO_LOADER_STATES[p]
                          => process'[i].status # "running"
          /\ (VIDEO_LOADER_STATES[p] = None /\ VIDEO_LOADER_STATES'[p] # None)
                => /\ VIDEO_LOADER_STATES'[p] = Len(sessions) + 1
                   /\ sessions'[VIDEO_LOADER_STATES'[p]].frame_index = 0
      ]_vars

ProbeFailed(probe) ==
    \/ probe.raises
    \/ ~probe.video
    \/ probe.width = Unparsable
    \/ probe.height = Unparsable

C14_DeviceProbeNeverFails ==
    /\ probing.capabilities # Failed("unset")
          => /\ probing.capabilities.err = "none"
             /\ ProbeFailed(probing.probe) => probing.capabilities = Fallback
    /\ probing.metadata # Failed("unset") => probing.metadata.err = "none"

(***************************************************************************)
(* C15.  For a video file whose probe result lacks the format block, a     *)
(* video stream, the width, the height, the frame rate, or both a frame    *)
(* count and every duration, the probe fails with an error that names a    *)
(* missing item; and a VideoLoader whose probe failed never gets a decode  *)
(* process.                                                                *)
(***************************************************************************)
\* the errors that name an item the probe result lacks
MissingItems(probe) ==
    {e \in {"Failed to get video format", "No video stream found",
            "No width found", "No height found", "No fps found",
            "No frame count or duration found"} :
        \/ e = "Failed to get video format" /\ ~probe.format
        \/ e = "No video stream found" /\ ~probe.video
        \/ e = "No width found" /\ probe.width = None
        \/ e = "No height found" /\ probe.height = None
        \/ e = "No fps found" /\ probe.r_frame_rate = << >>
        \/ /\ e = "No frame count or duration found"
           /\ probe.nb_frames = None
           /\ probe.duration = None
           /\ probe.format_duration = None}

C15_FileProbeFailure ==
    /\ (/\ video_loader.pc # "none"
        /\ ~video_loader.probe.raises
        /\ MissingItems(video_loader.probe) # {})
          => /\ video_loader.pc = "failed"
             /\ video_loader.err \in MissingItems(video_loader.probe)
    /\ video_loader.pc = "failed" => ffmpeg_reader = NoReader

(***************************************************************************)
(* C16.  The frame count of a file is the explicit nb_frames whenever the  *)
(* probe result carries one, whatever durations it carries as well; with   *)
(* no nb_frames it is duration x fps, cut to a whole number, of the video  *)
(* stream's duration if there is one and of the format block's otherwise.  *)
(***************************************************************************)
\* duration x fps as int() leaves it
DurationFrames(duration, fps) == (duration * fps[1]) \div fps[2]

C16_ExplicitFrameCount ==
    LET probe == video_loader.probe
        metadata == video_loader.metadata
    IN  video_loader.pc \notin {"none", "failed"} =>
          /\ probe.nb_frames # None => metadata.frame_count = probe.nb_frames
          /\ probe.nb_frames = None /\ probe.duration # None
                => metadata.frame_count
                       = DurationFrames(probe.duration, probe.r_frame_rate)
          /\ probe.nb_frames = None /\ probe.duration = None
                => metadata.frame_count
                       = DurationFrames(probe.format_duration, probe.r_frame_rate)

\* a loaded file with a frame count and both durations, none of which
\* gives the same number of frames
C16_Witness ==
    /\ video_loader.pc = "loaded"
    /\ video_loader.probe.nb_frames # None
    /\ video_loader.probe.duration # None
    /\ video_loader.probe.format_duration # None
    /\ video_loader.metadata.frame_count = video_loader.probe.nb_frames
    /\ video_loader.metadata.frame_count
          # DurationFrames(video_loader.probe.duration, video_loader.probe.r_frame_rate)
    /\ video_loader.metadata.frame_count
          # DurationFrames(video_loader.probe.format_duration,
                           video_loader.probe.r_frame_rate)

(***************************************************************************)
(* C17.  No per-frame anomaly aborts the frame sequence: whatever the      *)
(* length of a buffer that a read returned and whether or not its pixel    *)
(* conversion worked, the buffer is yielded or dropped (with or without an *)
(* adjusted resolution) and the loop goes on; no read ends the stream with *)
(* an error, neither in the device stream nor in the file loader's.        *)
(***************************************************************************)
C17_AnomaliesAbsorbed ==
    /\ \A i \in InvIds : \A j \in 1 .. Len(reads[i]) :
          reads[i][j].got > 0 => reads[i][j].result \in {"yield", "drop", "convfail"}
    /\ \A j \in 1 .. Len(video_loader.reads) :
          video_loader.reads[j].got > 0 => video_loader.reads[j].result = "yield"

(***************************************************************************)
(* C18.  The abort signal is looked at after every read from the decode    *)
(* process's output, whether the buffer is yielded or dropped: a read that *)
(* returned data while the signal was set is the last read of its stream,  *)
(* and the stream then ends without an error of the iterator.              *)
(***************************************************************************)
C18_AbortCheckedEachRead ==
    \A i \in InvIds : \A j \in 1 .. Len(reads[i]) :
        reads[i][j].aborted /\ reads[i][j].got > 0
            => /\ j = Len(reads[i])
               /\ it[i].err \in {"none", "Aborted"}

(***************************************************************************)
(* C19.  The resolution is corrected on the first read of a stream or      *)
(* never: whatever became of the first buffer, every later read leaves the *)
(* width, the height and the frame size as the read before it left them.   *)
(***************************************************************************)
C19_AutoDetectFirstReadOnly ==
    \A i \in InvIds : \A j \in 2 .. Len(reads[i]) :
        /\ reads[i][j].width = reads[i][j - 1].width
        /\ reads[i][j].height = reads[i][j - 1].height
        /\ reads[i][j].frame_size = reads[i][j - 1].frame_size

(***************************************************************************)
(* C20.  No decode process is spawned on behalf of a retired session:      *)
(* whenever an invocation's stream spawns its process, the session the     *)
(* invocation obtained is the one the keyed store holds for its path.      *)
(***************************************************************************)
C20_NoSpawnForRetired ==
    [][\A i \in InvIds :
          ~Spawned(i) /\ process'[i].status # "none"
              => VIDEO_LOADER_STATES[inv[i].path] = inv[i].state]_vars

(***************************************************************************)
(* C21.  After every request for a device path the session stored for the  *)
(* path has the requested pixel format and resolution.  A request whose    *)
(* pixel format and resolution are those of the stored session leaves the  *)
(* session's loader and frame_index as they were; a request that differs   *)
(* in either gives the session a loader that did not exist before and sets *)
(* its frame_index to 0.                                                   *)
(***************************************************************************)
C21_RequestSettings ==
    [][nInv' = nInv + 1 =>
          LET r == inv'[nInv']
              s == VIDEO_LOADER_STATES[r.path]
              t == VIDEO_LOADER_STATES'[r.path]
          IN  /\ t # None
              /\ sessions'[t].pix_fmt = r.pixel_format
              /\ sessions'[t].resolution = r.resolution
              /\ s # None =>
                   IF /\ sessions[s].pix_fmt = r.pixel_format
                      /\ sessions[s].resolution = r.resolution
                   THEN /\ sessions'[s].loader = sessions[s].loader
                        /\ sessions'[s].frame_index = sessions[s].frame_index
                   ELSE /\ sessions'[s].loader # sessions[s].loader
                        /\ sessions'[s].loader \notin 1 .. Len(loaders)
                        /\ sessions'[s].loader \in 1 .. Len(loaders')
                        /\ sessions'[s].frame_index = 0
    ]_vars

\* the first request's iteration has yielded a frame and ended, which left
\* the session's frame_index above 0, and the second request, with another
\* pixel format or resolution, has replaced the loader and set frame_index
\* to 0
C21_Witness ==
    /\ nInv = 2
    /\ inv[1].state = inv[2].state
    /\ VIDEO_LOADER_STATES[inv[2].path] = inv[2].state
    /\ \/ inv[1].pixel_format # inv[2].pixel_format
       \/ inv[1].resolution # inv[2].resolution
    /\ out[1] # << >>
    /\ it[1].pc = "done"
    /\ it[2].pc = "ready"
    /\ sessions[inv[2].state].frame_index = 0
    /\ sessions[inv[2].state].loader = 2
    /\ sessions[inv[2].state].pix_fmt = inv[2].pixel_format
    /\ sessions[inv[2].state].resolution = inv[2].resolution

(***************************************************************************)
(* C22.  The byte count stream_frames reads per frame is width x height x  *)
(* the bytes per pixel of the output pixel format it asks the decode       *)
(* process for: as long as no resolution has been auto-detected, the frame *)
(* size of a spawned stream is the size of one frame of the process's      *)
(* output.                                                                 *)
(***************************************************************************)
C22_ReadSizeIsOutputFrame ==
    \A i \in InvIds :
        (/\ Spawned(i)
         /\ stream[i].pc \in {"poll", "read"}
         /\ stream[i].first_frame)
            => stream[i].frame_size
                  = OutFrameBytes(loaders[stream[i].loader].requested_fmt,
                                  loaders[stream[i].loader].resolution)

(***************************************************************************)
(* C23.  A run of the node's iterator with a limit L yields at most L      *)
(* pairs, and the indices it yields are 0, 1, 2, ... without a gap,        *)
(* whatever the session's frame_index was when the run began.              *)
(***************************************************************************)
C23_AtMostLimit ==
    \A i \in InvIds :
        /\ out[i] = Indices(Len(out[i]))
        /\ inv[i].state # None /\ inv[i].use_limit => Len(out[i]) <= inv[i].limit

(***************************************************************************)
(* C24.  The cleanup hook and the iterator's error path of an invocation   *)
(* remove from the keyed store only the session that invocation obtained:  *)
(* in a step in which the hook of an invocation runs or its iterator ends  *)
(* with an error, a store entry that changes held that invocation's        *)
(* session.                                                                *)
(***************************************************************************)
\* the hook of invocation i runs in this step
HookRuns(i) == inv[i].hook = "registered" /\ inv'[i].hook = "done"

\* the iterator of invocation i ends with an error other than Aborted in
\* this step
IteratorFails(i) ==
    /\ it[i].pc # "done"
    /\ it'[i].pc = "done"
    /\ it'[i].err \notin {"none", "Aborted"}

C24_RemovesOwnSession ==
    [][\A i \in InvIds :
          HookRuns(i) \/ IteratorFails(i)
              => \A path \in Paths :
                    VIDEO_LOADER_STATES'[path] # VIDEO_LOADER_STATES[path]
                        => VIDEO_LOADER_STATES[path] = inv[i].state]_vars

(***************************************************************************)
(* C25.  With no limit and no abort, no complete frame the decode process  *)
(* wrote before it exited is lost: when the iterator of an invocation      *)
(* without a limit has ended without error, it has yielded as many pairs   *)
(* as its process wrote frames.                                            *)
(***************************************************************************)
C25_NoFrameLost ==
    \A i \in InvIds :
        (/\ it[i].pc = "done"
         /\ it[i].err = "none"
         /\ Spawned(i)
         /\ ~inv[i].use_limit
         /\ ~aborted)
            => Len(out[i]) = process[i].frames

=============================================================================
